---- MODULE Spec2Model ----
(***************************************************************************)
(* A model of data_extract.py: the tolerant line parser of GeoLife .plt     *)
(* trajectory files (try_parse_datetime, parse_plt_file) and the dataset    *)
(* collector (process_geolife_dataset).                                     *)
(*                                                                          *)
(* Text is modelled as text: a raw line is a string, split on commas and    *)
(* stripped as the code does, and float() and datetime.strptime() are       *)
(* modelled by the grammar they accept, character by character.             *)
(* Abstractions: ASCII input only (errors='replace' decoding, Unicode       *)
(* digits and the '_' digit separator of float() are left out); a float is  *)
(* an exact decimal (sign, mantissa, exponent) rather than a binary64, with *)
(* overflow to infinity kept; console output is not modelled.               *)
(***************************************************************************)
EXTENDS Integers, Sequences, FiniteSets, TLC

(***************************************************************************)
(* Characters and strings                                                   *)
(***************************************************************************)

\* s[i-1] of Python, as a one-character string ("" outside the string)
Ch(s, i) == IF i >= 1 /\ i <= Len(s) THEN SubSeq(s, i, i) ELSE ""

Digits == {"0", "1", "2", "3", "4", "5", "6", "7", "8", "9"}

IsDigit(c) == c \in Digits

DigitVal(c) == CHOOSE v \in 0..9 : Ch("0123456789", v + 1) = c

\* str.isspace() on the ASCII whitespace the inputs use
IsSpace(c) == c \in {" ", "\t", "\n", "\r"}

UpperCase == "ABCDEFGHIJKLMNOPQRSTUVWXYZ"

LowerCase == "abcdefghijklmnopqrstuvwxyz"

LowerChar(c) ==
    IF \E i \in 1..Len(UpperCase) : Ch(UpperCase, i) = c
    THEN Ch(LowerCase, CHOOSE i \in 1..Len(UpperCase) : Ch(UpperCase, i) = c)
    ELSE c

RECURSIVE Lower(_)
\* str.lower()
Lower(s) == IF s = "" THEN "" ELSE LowerChar(Ch(s, 1)) \o Lower(Tail(s))

RECURSIVE LStrip(_)
LStrip(s) == IF s # "" /\ IsSpace(Ch(s, 1)) THEN LStrip(Tail(s)) ELSE s

RECURSIVE RStrip(_)
RStrip(s) ==
    IF s # "" /\ IsSpace(Ch(s, Len(s))) THEN RStrip(SubSeq(s, 1, Len(s) - 1)) ELSE s

\* str.strip()
Strip(s) == RStrip(LStrip(s))

\* str.endswith(suffix)
EndsWith(s, suffix) ==
    /\ Len(s) >= Len(suffix)
    /\ SubSeq(s, Len(s) - Len(suffix) + 1, Len(s)) = suffix

RECURSIVE SplitFrom(_, _, _, _)
\* the pieces of s from position i on, cur being the piece under construction
SplitFrom(s, sep, i, cur) ==
    IF i > Len(s) THEN <<cur>>
    ELSE IF Ch(s, i) = sep THEN <<cur>> \o SplitFrom(s, sep, i + 1, "")
    ELSE SplitFrom(s, sep, i + 1, cur \o Ch(s, i))

\* str.split(sep) for a one-character separator
Split(s, sep) == SplitFrom(s, sep, 1, "")

\* code points of the characters that names use, in ascending order
AsciiOrder == " -./0123456789:ABCDEFGHIJKLMNOPQRSTUVWXYZ_abcdefghijklmnopqrstuvwxyz"

Ord(c) == CHOOSE i \in 1..Len(AsciiOrder) : Ch(AsciiOrder, i) = c

RECURSIVE StrLess(_, _)
\* a < b on Python strings (lexicographic by code point)
StrLess(a, b) ==
    IF b = "" THEN FALSE
    ELSE IF a = "" THEN TRUE
    ELSE IF Ch(a, 1) = Ch(b, 1) THEN StrLess(Tail(a), Tail(b))
    ELSE Ord(Ch(a, 1)) < Ord(Ch(b, 1))

(***************************************************************************)
(* float(str)                                                               *)
(***************************************************************************)

RECURSIVE ScanDigits(_, _)
\* the position after the longest run of digits of s that starts at i
ScanDigits(s, i) == IF IsDigit(Ch(s, i)) THEN ScanDigits(s, i + 1) ELSE i

RECURSIVE DigitsValue(_)
\* the number a string of digits denotes (0 for the empty string)
DigitsValue(s) ==
    IF s = "" THEN 0
    ELSE 10 * DigitsValue(SubSeq(s, 1, Len(s) - 1)) + DigitVal(Ch(s, Len(s)))

RECURSIVE NumDigits(_)
NumDigits(n) == IF n < 10 THEN 1 ELSE 1 + NumDigits(n \div 10)

RECURSIVE Pow10(_)
Pow10(k) == IF k <= 0 THEN 1 ELSE 10 * Pow10(k - 1)

\* the largest binary64 is 1.7976931348623157e308: a mantissa of at most 9
\* digits rounds to infinity from 1.79769314e308 on
MaxFloatLead == 179769314

MaxFloatExp == 309

FloatError == [ok |-> FALSE]

\* a float: finite (mant * 10^exp, negated if neg), an infinity or NaN
Num(kind, neg, mant, exp) == [kind |-> kind, neg |-> neg, mant |-> mant, exp |-> exp]

RECURSIVE Normal(_, _, _)
\* mant * 10^exp with the mantissa's trailing zeros moved into the exponent,
\* or the infinity it rounds to
Normal(neg, mant, exp) ==
    IF mant = 0 THEN Num("finite", neg, 0, 0)
    ELSE IF mant % 10 = 0 THEN Normal(neg, mant \div 10, exp + 1)
    ELSE IF \/ NumDigits(mant) + exp > MaxFloatExp
            \/ /\ NumDigits(mant) + exp = MaxFloatExp
               /\ mant * Pow10(9 - NumDigits(mant)) >= MaxFloatLead
    THEN Num("inf", neg, 0, 0)
    ELSE Num("finite", neg, mant, exp)

\* 1 if s starts with a sign, else 0
SignLen(s) == IF Ch(s, 1) \in {"+", "-"} THEN 1 ELSE 0

\* the digits of the mantissa and of the exponent are known: digits holds the
\* integer and the fraction digits, fraclen of them after the point; expdigits
\* is "" when there is no exponent; rest is what follows the number
FloatValue(neg, digits, fraclen, expneg, expdigits, hasexp, rest) ==
    IF digits = "" \/ (hasexp /\ expdigits = "") \/ rest # ""
    THEN FloatError
    ELSE [ok |-> TRUE,
          value |-> Normal(neg, DigitsValue(digits),
                           (IF expneg THEN 0 - DigitsValue(expdigits)
                            ELSE DigitsValue(expdigits)) - fraclen)]

\* e is what follows the mantissa and the letter e, its sign removed
FloatExpDigits(neg, digits, fraclen, expneg, e, p) ==
    FloatValue(neg, digits, fraclen, expneg, SubSeq(e, 1, p - 1), TRUE,
               SubSeq(e, p, Len(e)))

\* t is what follows the mantissa
FloatExponent(neg, digits, fraclen, t) ==
    IF Ch(t, 1) \in {"e", "E"}
    THEN FloatExpDigits(neg, digits, fraclen, Ch(t, 2) = "-",
                        SubSeq(t, 2 + SignLen(Tail(t)), Len(t)),
                        ScanDigits(SubSeq(t, 2 + SignLen(Tail(t)), Len(t)), 1))
    ELSE FloatValue(neg, digits, fraclen, FALSE, "", FALSE, t)

\* u from position p2 on follows the integer digits, from p3 on the fraction
FloatFraction(u, neg, p2, p3) ==
    FloatExponent(neg,
                  SubSeq(u, 1, p2 - 1) \o (IF p3 > p2 THEN SubSeq(u, p2 + 1, p3 - 1) ELSE ""),
                  IF p3 > p2 THEN p3 - p2 - 1 ELSE 0,
                  SubSeq(u, p3, Len(u)))

FloatDecimal(u, neg, p2) ==
    FloatFraction(u, neg, p2, IF Ch(u, p2) = "." THEN ScanDigits(u, p2 + 1) ELSE p2)

\* u is the text with its sign removed, word is u in lower case
FloatUnsigned(u, word, neg) ==
    IF word \in {"inf", "infinity"} THEN [ok |-> TRUE, value |-> Num("inf", neg, 0, 0)]
    ELSE IF word = "nan" THEN [ok |-> TRUE, value |-> Num("nan", neg, 0, 0)]
    ELSE FloatDecimal(u, neg, ScanDigits(u, 1))

FloatSigned(t, u) == FloatUnsigned(u, Lower(u), Ch(t, 1) = "-")

FloatStripped(t) == FloatSigned(t, SubSeq(t, 1 + SignLen(t), Len(t)))

\* float(s): [ok |-> FALSE] is ValueError; otherwise the value. The grammar:
\* whitespace is stripped, then [sign] (inf | infinity | nan), in any case, or
\* [sign] digits [. digits] [(e | E) [sign] digits] with a digit before or
\* after the point
Float(s) == FloatStripped(Strip(s))

\* math.isfinite
IsFinite(x) == x.kind = "finite"

\* the text of the ValueError that float(s) raises
FloatErrorText(s) == "could not convert string to float: '" \o s \o "'"

(***************************************************************************)
(* datetime.strptime(ts, fmt) for the directives the four layouts use       *)
(***************************************************************************)

StrpError == [ok |-> FALSE]

\* one directive matched at position j of ts: its value and the position after
\* it. Each directive is the regular expression of _strptime.TimeRE, whose
\* alternatives are tried in order:
\*   %Y \d\d\d\d                        %m 1[0-2]|0[1-9]|[1-9]
\*   %d 3[0-1]|[1-2]\d|0[1-9]|[1-9]| [1-9]
\*   %H 2[0-3]|[0-1]\d|\d               %M [0-5]\d|\d
\*   %S 6[0-1]|[0-5]\d|\d
Directive(d, ts, j) ==
    LET c1 == Ch(ts, j)
        c2 == Ch(ts, j + 1)
        two == [ok |-> TRUE, val |-> DigitsValue(c1 \o c2), next |-> j + 2]
        one == [ok |-> TRUE, val |-> DigitsValue(c1), next |-> j + 1]
        nonzero == Digits \ {"0"}
    IN  CASE d = "Y" ->
                IF \A k \in 0..3 : IsDigit(Ch(ts, j + k))
                THEN [ok |-> TRUE, val |-> DigitsValue(SubSeq(ts, j, j + 3)), next |-> j + 4]
                ELSE StrpError
          [] d = "m" ->
                IF c1 = "1" /\ c2 \in {"0", "1", "2"} THEN two
                ELSE IF c1 = "0" /\ c2 \in nonzero THEN two
                ELSE IF c1 \in nonzero THEN one
                ELSE StrpError
          [] d = "d" ->
                IF c1 = "3" /\ c2 \in {"0", "1"} THEN two
                ELSE IF c1 \in {"1", "2"} /\ IsDigit(c2) THEN two
                ELSE IF c1 = "0" /\ c2 \in nonzero THEN two
                ELSE IF c1 \in nonzero THEN one
                ELSE IF c1 = " " /\ c2 \in nonzero
                THEN [ok |-> TRUE, val |-> DigitsValue(c2), next |-> j + 2]
                ELSE StrpError
          [] d = "H" ->
                IF c1 = "2" /\ c2 \in {"0", "1", "2", "3"} THEN two
                ELSE IF c1 \in {"0", "1"} /\ IsDigit(c2) THEN two
                ELSE IF IsDigit(c1) THEN one
                ELSE StrpError
          [] d = "M" ->
                IF c1 \in {"0", "1", "2", "3", "4", "5"} /\ IsDigit(c2) THEN two
                ELSE IF IsDigit(c1) THEN one
                ELSE StrpError
          [] d = "S" ->
                IF c1 = "6" /\ c2 \in {"0", "1"} THEN two
                ELSE IF c1 \in {"0", "1", "2", "3", "4", "5"} /\ IsDigit(c2) THEN two
                ELSE IF IsDigit(c1) THEN one
                ELSE StrpError
          [] OTHER -> StrpError

RECURSIVE SkipSpaces(_, _)
\* the position after the whitespace of ts that starts at j
SkipSpaces(ts, j) == IF IsSpace(Ch(ts, j)) THEN SkipSpaces(ts, j + 1) ELSE j

\* the fields strptime starts from: 1900-01-01 00:00:00
StrpDefaults == [Y |-> 1900, m |-> 1, d |-> 1, H |-> 0, M |-> 0, S |-> 0]

RECURSIVE StrpScan(_, _, _, _, _)
RECURSIVE StrpDirective(_, _, _, _, _, _)
\* ts from position j matched against fmt from position i: a directive by its
\* expression, whitespace of the format by \s+, any other character by itself;
\* the whole of ts must be consumed ("unconverted data remains" otherwise)
StrpScan(ts, fmt, i, j, acc) ==
    IF i > Len(fmt)
    THEN IF j = Len(ts) + 1 THEN [ok |-> TRUE, fields |-> acc] ELSE StrpError
    ELSE IF Ch(fmt, i) = "%"
    THEN StrpDirective(ts, fmt, i, acc, Ch(fmt, i + 1), Directive(Ch(fmt, i + 1), ts, j))
    ELSE IF IsSpace(Ch(fmt, i))
    THEN IF IsSpace(Ch(ts, j)) THEN StrpScan(ts, fmt, i + 1, SkipSpaces(ts, j), acc)
         ELSE StrpError
    ELSE IF Ch(ts, j) = Ch(fmt, i) THEN StrpScan(ts, fmt, i + 1, j + 1, acc)
    ELSE StrpError

\* the directive d at position i of fmt matched as r says
StrpDirective(ts, fmt, i, acc, d, r) ==
    IF r.ok THEN StrpScan(ts, fmt, i + 2, r.next, [acc EXCEPT ![d] = r.val])
    ELSE StrpError

IsLeap(y) == y % 4 = 0 /\ (y % 100 # 0 \/ y % 400 = 0)

DaysInMonth(y, m) ==
    IF m = 2 THEN (IF IsLeap(y) THEN 29 ELSE 28)
    ELSE IF m \in {4, 6, 9, 11} THEN 30
    ELSE 31

\* the datetime constructor on the matched fields: it rejects year 0, a day
\* past the month's end and the seconds 60 and 61
MakeDatetime(r) ==
    IF r.ok /\ r.fields.Y >= 1 /\ r.fields.d <= DaysInMonth(r.fields.Y, r.fields.m)
            /\ r.fields.S <= 59
    THEN [ok |-> TRUE,
          value |-> << r.fields.Y, r.fields.m, r.fields.d,
                       r.fields.H, r.fields.M, r.fields.S >>]
    ELSE StrpError

\* datetime.strptime(ts, fmt): [ok |-> FALSE] is ValueError; otherwise the
\* instant <<year, month, day, hour, minute, second>>
strptime(ts, fmt) == MakeDatetime(StrpScan(ts, fmt, 1, 1, StrpDefaults))

RECURSIVE TupleLess(_, _)
\* a < b on instants (tuples of equal length, compared field by field)
TupleLess(a, b) ==
    IF a = <<>> THEN FALSE
    ELSE IF Head(a) = Head(b) THEN TupleLess(Tail(a), Tail(b))
    ELSE Head(a) < Head(b)

\* a faulty variant of the list: its last layout is missing
dropped_candidates ==
    << "%Y-%m-%d %H:%M:%S",
       "%Y/%m/%d %H:%M:%S",
       "%d-%m-%Y %H:%M:%S" >>

\* the layouts try_parse_datetime tries, in order
candidates ==
    << "%Y-%m-%d %H:%M:%S",
       "%Y/%m/%d %H:%M:%S",
       "%d-%m-%Y %H:%M:%S",
       "%Y-%m-%d %H:%M" >>

RECURSIVE TryFrom(_, _)
RECURSIVE TryCandidate(_, _, _)
\* the loop over candidates from index k on; past the last one ValueError is
\* raised
TryFrom(ts, k) ==
    IF k > Len(candidates)
    THEN [ok |-> FALSE, text |-> "Unknown datetime format: '" \o ts \o "'"]
    ELSE TryCandidate(ts, k, strptime(ts, candidates[k]))

\* candidate k gave r: returned if strptime did not raise, else the next one
TryCandidate(ts, k, r) == IF r.ok THEN r ELSE TryFrom(ts, k + 1)

try_parse_datetime(date_str, time_str) == TryFrom(date_str \o " " \o time_str, 1)

(***************************************************************************)
(* parse_plt_file: one line                                                 *)
(***************************************************************************)

MinFields == 6

HeaderLines == 6

MaxBadLines == 5

StripAll(pieces) == [i \in 1..Len(pieces) |-> Strip(pieces[i])]

\* [p.strip() for p in raw.split(',') if p.strip() != ""]
Parts(text) == SelectSeq(StripAll(Split(text, ",")), LAMBDA p : p # "")

ValueError(text) == [ok |-> FALSE, text |-> text]

\* a faulty variant of the altitude: field[3] only, with no second attempt
AltitudeNoFallback(first, parts) == first

\* float(parts[-3]) when float(parts[3]) raised
AltitudeFallback(first, parts) ==
    IF first.ok THEN first ELSE Float(parts[Len(parts) - 2])

\* altitude: float(parts[3]), and float(parts[-3]) when that raises (or when
\* there is no parts[3])
Altitude(parts) ==
    IF Len(parts) > 3 THEN AltitudeFallback(Float(parts[4]), parts)
    ELSE Float(parts[Len(parts) - 2])

\* the try block once its four conversions are known: the first that raised
\* decides the error
Converted(parts, uid, latitude, longitude, altitude, timestamp) ==
    IF ~latitude.ok THEN ValueError(FloatErrorText(parts[1]))
    ELSE IF ~longitude.ok THEN ValueError(FloatErrorText(parts[2]))
    ELSE IF ~altitude.ok THEN ValueError(FloatErrorText(parts[Len(parts) - 2]))
    ELSE IF ~timestamp.ok THEN ValueError(timestamp.text)
    ELSE [ok |-> TRUE,
          rec |-> [user_id |-> uid,
                   latitude |-> latitude.value,
                   longitude |-> longitude.value,
                   altitude |-> altitude.value,
                   timestamp |-> timestamp.value]]

\* the try block of one line with its fields split: the record that is
\* appended, or the ValueError the except clause catches
Extract(parts, uid) ==
    Converted(parts, uid, Float(parts[1]), Float(parts[2]), Altitude(parts),
              try_parse_datetime(parts[Len(parts) - 1], parts[Len(parts)]))

\* a faulty variant of the sample: appended to without the length test
SampleUncapped(bad, text) == Append(bad, text)

\* bad_lines after "if len(bad_lines) < 5: bad_lines.append(text)"
Sample(bad, text) == IF Len(bad) < MaxBadLines THEN Append(bad, text) ELSE bad

(***************************************************************************)
(* process_geolife_dataset: listing and sorting                             *)
(***************************************************************************)

RECURSIVE SortedNames(_)
\* sorted(names) for a set of distinct names
SortedNames(names) ==
    IF names = {} THEN <<>>
    ELSE LET least == CHOOSE a \in names : \A b \in names \ {a} : StrLess(a, b)
         IN  <<least>> \o SortedNames(names \ {least})

\* a faulty variant of the sort key: by=['user_id'] alone
RowLessByUser(a, b) == StrLess(a.user_id, b.user_id)

\* row a sorts strictly before row b by ['user_id', 'timestamp']
RowLess(a, b) ==
    \/ StrLess(a.user_id, b.user_id)
    \/ a.user_id = b.user_id /\ TupleLess(a.timestamp, b.timestamp)

\* the number of rows that come before row i once sorted: those that sort
\* before it and, of those with its keys, the ones listed before it
RowsBefore(rows, i) ==
    Cardinality({ j \in DOMAIN rows :
                    \/ RowLess(rows[j], rows[i])
                    \/ ~RowLess(rows[i], rows[j]) /\ j < i })

\* df.sort_values(by=['user_id', 'timestamp']), rows with equal keys kept in
\* their order
sort_values(rows) ==
    [k \in DOMAIN rows |-> rows[CHOOSE i \in DOMAIN rows : RowsBefore(rows, i) = k - 1]]

\* "if limit_files_per_user": None (modelled <<>>) and 0 are false
Truthy(limit) == limit # <<>> /\ limit[1] # 0

(***************************************************************************)
(* State                                                                    *)
(***************************************************************************)

VARIABLES
    root,                  \* the entries of base_path (an input)
    limit_files_per_user,  \* <<>> for None, <<n>> for the integer n (an input)
    pc,                    \* "owner", "files", "header", "loop", "line", "done"
    owners,                \* sorted(os.listdir(base_path))
    oi,                    \* the position of the outer loop in owners
    files,                 \* sorted(os.listdir(trajectory_path))
    fi,                    \* the position of the inner loop in files
    user_id,
    users_processed,
    file_count,
    all_data,
    output,                \* the CSV file: whether it was written, and its rows
    data,                  \* parse_plt_file's locals
    bad_lines,
    total_lines,
    skipped,
    header,                \* header lines consumed so far
    line,                  \* the line being processed
    calls                  \* history: the calls of parse_plt_file so far

vars == << root, limit_files_per_user, pc, owners, oi, files, fi, user_id,
           users_processed, file_count, all_data, output, data, bad_lines,
           total_lines, skipped, header, line, calls >>

collector == << root, limit_files_per_user, owners, oi, files, fi, user_id,
                users_processed, file_count, all_data, output, calls >>

\* no file has been written
NoOutput == [written |-> FALSE, rows |-> <<>>]

(***************************************************************************)
(* Inputs                                                                   *)
(***************************************************************************)

MaxLimit == 2

MaxRunLines == 1

MaxFileLines == 6

\* an entry of base_path: a file, or a directory with or without a
\* Trajectory subdirectory holding the named files
Entry(name, isdir, trajectory, names) ==
    [name |-> name, isdir |-> isdir, trajectory |-> trajectory, files |-> names]

Trees ==
    { {},
      { Entry("readme.txt", FALSE, FALSE, {}),
        Entry("tmp", TRUE, FALSE, {}) },
      { Entry("010", TRUE, TRUE, {"a.PLT", "notes.txt"}),
        Entry("002", TRUE, TRUE, {"20081023.plt"}),
        Entry("labels.txt", FALSE, FALSE, {}),
        Entry("100", TRUE, FALSE, {}) },
      { Entry("000", TRUE, TRUE, {"3.plt", "1.plt", "2.plt", "1.plt.bak"}),
        Entry("001", TRUE, TRUE, {}) } }

Limits == {<<>>} \cup { <<n>> : n \in 0..MaxLimit }

\* the lines the files of a whole run are made of: two records of different
\* times, and a line skipped for each reason
RunLines ==
    { "39.984702,116.318417,0,492,39744.12,2008-10-23,02:53:04\n",
      "39.984683,116.31845,0,492,39744.11,2008-10-22,23:59:59\n",
      "39.984683,116.31845,0,492,39744.11,2008-10-22\n",
      "39.984683,116.31845,0,492,2008-10-22\n",
      "\n" }

\* the lines of a single file: a record, and lines skipped for each reason
FileLines ==
    { "39.984702,116.318417,0,492,39744.12,2008-10-23,02:53:04\n",
      "1,2,3,4,5\n",
      "39.9,abc,0,492,39744.12,2008-10-23,02:53:04\n",
      "   \n" }

RECURSIVE Join(_, _)
\* sep.join(pieces)
Join(pieces, sep) ==
    IF pieces = <<>> THEN ""
    ELSE IF Len(pieces) = 1 THEN pieces[1]
    ELSE pieces[1] \o sep \o Join(Tail(pieces), sep)

Latitudes == {"39.984702", "-12.5", "abc", "nan"}

Longitudes == {"116.318417", "1e400", "116.3.1"}

Altitudes == {"492", "-777", "x", "inf"}

Days == {"39744.12", "n/a"}

Dates == {"2008-10-23", "2008/10/23", "23-10-2008", "10/23/2008", "2008-02-30"}

Times == {"02:53:04", "02:53", "24:00:00"}

\* single lines: seven fields, six fields (no day count, so that parts[3] and
\* parts[-3] are one field), and lines the field count or the padding decides
LineInputs ==
    { Join(<<la, lo, "0", al, dy, dt, tm>>, ",") :
        la \in Latitudes, lo \in Longitudes, al \in Altitudes,
        dy \in Days, dt \in Dates, tm \in Times }
    \cup
    { Join(<<la, "116.318417", "0", al, dt, tm>>, ",") :
        la \in Latitudes, al \in Altitudes, dt \in Dates, tm \in Times }
    \cup
    { "", "\n", "  \t \n", ",,,\n",
      "1,2,3,4,5",
      "abc,def\n",
      "39.9,116.3,,492,,2008-10-23,02:53:04,\n",
      "39.9,116.3,0,492,39744.1,,2008-10-23,,02:53:04,,\n",
      " 39.9 , 116.3 , 0 , 492 , 39744.1 , 2008-10-23 , 02:53:04 \n",
      "39.9,116.3,0,492,39744.1,2008-10-23 02:53:04\n",
      "39.9,116.3,0,492,39744.1,2008-10- 3,2:5:7\n",
      "39.9,116.3,0,1e5,9,9,9,29-02-2008,23:59:59\n",
      "39.9,116.3,0,492,39744.1,2008-10-23,02:53:60\n",
      "39.9,116.3,0,492,39744.1,0000-10-23,02:53:04\n" }

Users == {"000", "010"}

(***************************************************************************)
(* process_geolife_dataset                                                  *)
(***************************************************************************)

EntryNamed(name) == CHOOSE e \in root : e.name = name

\* os.path.isdir(user_path) and os.path.isdir(trajectory_path)
IsOwner(name) == EntryNamed(name).isdir /\ EntryNamed(name).trajectory

\* filename.lower().endswith('.plt')
IsPlt(filename) == EndsWith(Lower(filename), ".plt")

\* the locals of parse_plt_file as its first four statements set them
FreshLocals ==
    /\ data' = <<>>
    /\ bad_lines' = <<>>
    /\ total_lines' = 0
    /\ skipped' = 0
    /\ header' = 0
    /\ line' = ""

Init ==
    /\ root \in Trees
    /\ limit_files_per_user \in Limits
    /\ pc = "owner"
    /\ owners = SortedNames({ e.name : e \in root })
    /\ oi = 1
    /\ files = <<>>
    /\ fi = 1
    /\ user_id = ""
    /\ users_processed = 0
    /\ file_count = 0
    /\ all_data = <<>>
    /\ output = NoOutput
    /\ data = <<>>
    /\ bad_lines = <<>>
    /\ total_lines = 0
    /\ skipped = 0
    /\ header = 0
    /\ line = ""
    /\ calls = <<>>

\* an entry of base_path that is no directory, or has no Trajectory directory
SkipEntry ==
    /\ pc = "owner"
    /\ oi <= Len(owners)
    /\ ~IsOwner(owners[oi])
    /\ oi' = oi + 1
    /\ UNCHANGED << root, limit_files_per_user, pc, owners, files, fi, user_id,
                    users_processed, file_count, all_data, output, data,
                    bad_lines, total_lines, skipped, header, line, calls >>

\* an owner: its files are listed in sorted order
EnterOwner ==
    /\ pc = "owner"
    /\ oi <= Len(owners)
    /\ IsOwner(owners[oi])
    /\ users_processed' = users_processed + 1
    /\ user_id' = owners[oi]
    /\ file_count' = 0
    /\ files' = SortedNames(EntryNamed(owners[oi]).files)
    /\ fi' = 1
    /\ pc' = "files"
    /\ UNCHANGED << root, limit_files_per_user, owners, oi, all_data, output,
                    data, bad_lines, total_lines, skipped, header, line, calls >>

\* a file of the Trajectory directory whose name does not end in .plt
SkipFile ==
    /\ pc = "files"
    /\ fi <= Len(files)
    /\ ~IsPlt(files[fi])
    /\ fi' = fi + 1
    /\ UNCHANGED << root, limit_files_per_user, pc, owners, oi, files, user_id,
                    users_processed, file_count, all_data, output, data,
                    bad_lines, total_lines, skipped, header, line, calls >>

\* the inner loop ends: the next entry of base_path
LeaveOwner ==
    /\ pc = "files"
    /\ fi > Len(files)
    /\ oi' = oi + 1
    /\ pc' = "owner"
    /\ UNCHANGED << root, limit_files_per_user, owners, files, fi, user_id,
                    users_processed, file_count, all_data, output, data,
                    bad_lines, total_lines, skipped, header, line, calls >>

\* the outer loop ends: the rows are sorted and written if there are any
Finalize ==
    /\ pc = "owner"
    /\ oi > Len(owners)
    /\ output' = IF all_data # <<>>
                 THEN [written |-> TRUE, rows |-> sort_values(all_data)]
                 ELSE output
    /\ pc' = "done"
    /\ UNCHANGED << root, limit_files_per_user, owners, oi, files, fi, user_id,
                    users_processed, file_count, all_data, data, bad_lines,
                    total_lines, skipped, header, line, calls >>

(***************************************************************************)
(* parse_plt_file                                                           *)
(***************************************************************************)

\* parse_plt_file returns file_data to the inner loop, which extends all_data,
\* counts the file and breaks when the limit is set and reached. ok says
\* whether the file was read to its end; parsed is what data held.
Return(file_data, ok, parsed) ==
    /\ all_data' = all_data \o file_data
    /\ file_count' = file_count + 1
    /\ calls' = Append(calls, [user_id |-> user_id, file |-> files[fi],
                               ok |-> ok, parsed |-> parsed])
    /\ IF Truthy(limit_files_per_user) /\ file_count + 1 >= limit_files_per_user[1]
       THEN /\ oi' = oi + 1
            /\ pc' = "owner"
            /\ fi' = fi
       ELSE /\ fi' = fi + 1
            /\ pc' = "files"
            /\ oi' = oi
    /\ FreshLocals
    /\ UNCHANGED << root, limit_files_per_user, owners, files, user_id,
                    users_processed, output >>

\* the call, and open() succeeds
OpenFile ==
    /\ pc = "files"
    /\ fi <= Len(files)
    /\ IsPlt(files[fi])
    /\ FreshLocals
    /\ pc' = "header"
    /\ UNCHANGED collector

\* the call, and open() raises: the except clause returns []
OpenError ==
    /\ pc = "files"
    /\ fi <= Len(files)
    /\ IsPlt(files[fi])
    /\ Return(<<>>, FALSE, <<>>)

\* next(f) skips one of the header lines
SkipHeaderLine ==
    /\ pc = "header"
    /\ header < HeaderLines
    /\ header' = header + 1
    /\ pc' = IF header + 1 = HeaderLines THEN "loop" ELSE "header"
    /\ UNCHANGED collector
    /\ UNCHANGED << data, bad_lines, total_lines, skipped, line >>

\* next(f) raises StopIteration: the file ends within its header, and the
\* loop over its lines has nothing to read
HeaderEOF ==
    /\ pc = "header"
    /\ header < HeaderLines
    /\ Return(data, TRUE, data)

\* a faulty variant of the except clause: it returns data as far as it was
\* parsed
ReadErrorKeepsData ==
    /\ pc \in {"header", "loop"}
    /\ Return(data, FALSE, data)

\* reading raises (in the header or between two lines): the except clause
\* returns [] whatever data holds
ReadError ==
    /\ pc \in {"header", "loop"}
    /\ Return(<<>>, FALSE, data)

\* the loop reads the next line l; a file has at most bound lines
ReadLine(l, bound) ==
    /\ pc = "loop"
    /\ total_lines < bound
    /\ total_lines' = total_lines + 1
    /\ line' = l
    /\ pc' = "line"
    /\ UNCHANGED collector
    /\ UNCHANGED << data, bad_lines, skipped, header >>

\* the file ends: data is returned
EndOfFile ==
    /\ pc = "loop"
    /\ Return(data, TRUE, data)

\* raw = line.strip()
raw == Strip(line)

\* a faulty variant of the field count test: "if len(parts) < 5"
FieldsFive(parts) == Len(parts) >= 5

\* the fields of a line that has enough of them
Fields(parts) == Len(parts) >= MinFields

\* the try block gave r and did not raise
Appended(r) == r.ok /\ data' = Append(data, r.rec)

\* the try block raised the ValueError r
Caught(r) == ~r.ok /\ bad_lines' = Sample(bad_lines, raw \o "  <-- " \o r.text)

\* a faulty variant of the try block: the record carries the name of the file
\* in place of user_id
TryFileName(parts) == Extract(parts, "20081023.plt")

\* the try block of the line with the fields parts
Try(parts) == Extract(parts, user_id)

\* a faulty variant of "if not raw": the line is dropped without being counted
EmptyLineUncounted ==
    /\ pc = "line"
    /\ raw = ""
    /\ pc' = "loop"
    /\ UNCHANGED collector
    /\ UNCHANGED << data, bad_lines, total_lines, skipped, header, line >>

\* "if not raw": counted, not sampled
EmptyLine ==
    /\ pc = "line"
    /\ raw = ""
    /\ skipped' = skipped + 1
    /\ pc' = "loop"
    /\ UNCHANGED collector
    /\ UNCHANGED << data, bad_lines, total_lines, header, line >>

\* fewer than 6 fields: counted and sampled as it is
ShortLine ==
    /\ pc = "line"
    /\ raw # ""
    /\ ~Fields(Parts(raw))
    /\ skipped' = skipped + 1
    /\ bad_lines' = Sample(bad_lines, raw)
    /\ pc' = "loop"
    /\ UNCHANGED collector
    /\ UNCHANGED << data, total_lines, header, line >>

\* the try block runs to its end: a record is appended
AppendRecord ==
    /\ pc = "line"
    /\ raw # ""
    /\ Fields(Parts(raw))
    /\ Appended(Try(Parts(raw)))
    /\ pc' = "loop"
    /\ UNCHANGED collector
    /\ UNCHANGED << bad_lines, total_lines, skipped, header, line >>

\* the try block raises ValueError: counted and sampled with the error's text
SkipValueError ==
    /\ pc = "line"
    /\ raw # ""
    /\ Fields(Parts(raw))
    /\ Caught(Try(Parts(raw)))
    /\ skipped' = skipped + 1
    /\ pc' = "loop"
    /\ UNCHANGED collector
    /\ UNCHANGED << data, total_lines, header, line >>

(***************************************************************************)
(* Specifications                                                           *)
(***************************************************************************)

\* a whole run of process_geolife_dataset
Next ==
    \/ SkipEntry
    \/ EnterOwner
    \/ SkipFile
    \/ LeaveOwner
    \/ Finalize
    \/ OpenFile
    \/ OpenError
    \/ SkipHeaderLine
    \/ HeaderEOF
    \/ ReadError
    \/ \E l \in RunLines : ReadLine(l, MaxRunLines)
    \/ EndOfFile
    \/ EmptyLine
    \/ ShortLine
    \/ AppendRecord
    \/ SkipValueError

Spec == Init /\ [][Next]_vars

\* one call of parse_plt_file, from the call to the return
InitFile ==
    /\ root = {Entry("000", TRUE, TRUE, {"20081023.plt"})}
    /\ limit_files_per_user \in Limits
    /\ pc = "files"
    /\ owners = <<"000">>
    /\ oi = 1
    /\ files = <<"20081023.plt">>
    /\ fi = 1
    /\ user_id = "000"
    /\ users_processed = 1
    /\ file_count = 0
    /\ all_data = <<>>
    /\ output = NoOutput
    /\ data = <<>>
    /\ bad_lines = <<>>
    /\ total_lines = 0
    /\ skipped = 0
    /\ header = 0
    /\ line = ""
    /\ calls = <<>>

NextFile ==
    \/ OpenFile
    \/ OpenError
    \/ SkipHeaderLine
    \/ HeaderEOF
    \/ ReadError
    \/ \E l \in FileLines : ReadLine(l, MaxFileLines)
    \/ EndOfFile
    \/ EmptyLine
    \/ ShortLine
    \/ AppendRecord
    \/ SkipValueError

SpecFile == InitFile /\ [][NextFile]_vars

\* the processing of one line: the state after the loop has read the first
\* line after the header, for every line of LineInputs
InitLine ==
    /\ root = {Entry("000", TRUE, TRUE, {"a.plt"}), Entry("010", TRUE, TRUE, {"a.plt"})}
    /\ limit_files_per_user = <<>>
    /\ pc = "line"
    /\ owners = <<"000", "010">>
    /\ user_id \in Users
    /\ oi = IF user_id = "000" THEN 1 ELSE 2
    /\ files = <<"a.plt">>
    /\ fi = 1
    /\ users_processed = oi
    /\ file_count = 0
    /\ all_data = <<>>
    /\ output = NoOutput
    /\ data = <<>>
    /\ bad_lines = <<>>
    /\ total_lines = 1
    /\ skipped = 0
    /\ header = HeaderLines
    /\ line \in LineInputs
    /\ calls = <<>>

NextLine ==
    \/ EmptyLine
    \/ ShortLine
    \/ AppendRecord
    \/ SkipValueError

SpecLine == InitLine /\ [][NextLine]_vars

(***************************************************************************)
(* Properties                                                               *)
(***************************************************************************)

\* the fields of the line held in line, as the claims count them
LineFields == Parts(Strip(line))

\* field[k] of the line, k counted from 0
Field(k) == LineFields[k + 1]

\* field[-k] of the line
FieldFromEnd(k) == LineFields[Len(LineFields) - k + 1]

\* the four layouts, by the order the specification lists them:
\* YYYY-MM-DD HH:MM:SS, YYYY/MM/DD HH:MM:SS, DD-MM-YYYY HH:MM:SS, YYYY-MM-DD HH:MM
Layouts ==
    << "%Y-%m-%d %H:%M:%S", "%Y/%m/%d %H:%M:%S", "%d-%m-%Y %H:%M:%S", "%Y-%m-%d %H:%M" >>

\* the date and the time of the line joined by one space
DateTimeText == FieldFromEnd(2) \o " " \o FieldFromEnd(1)

\* the layouts that match the whole of the date and time of the line
Matching == { k \in DOMAIN Layouts : strptime(DateTimeText, Layouts[k]).ok }

FirstMatching == CHOOSE k \in Matching : \A j \in Matching : k <= j

\* the line has 6 or more fields, and its latitude and longitude parse
CoordinatesParse ==
    /\ Len(LineFields) >= 6
    /\ Float(Field(0)).ok
    /\ Float(Field(1)).ok

\* field[3] parses, or else field[-3] does
AltitudeParses == Float(Field(3)).ok \/ Float(FieldFromEnd(3)).ok

\* exactly one line has been processed and it gave a record / it was skipped
OneRecord == pc = "loop" /\ total_lines = 1 /\ Len(data) = 1 /\ skipped = 0

OneSkip == pc = "loop" /\ total_lines = 1 /\ data = <<>> /\ skipped = 1

\* the line of the state has been processed
Processed == pc = "loop" /\ total_lines = 1

\* a step from a line that has been read: back to the loop, with a record
\* appended or else a skip counted
OneOutcome ==
    pc = "line" =>
        /\ pc' = "loop"
        /\ \/ Len(data') = Len(data) + 1 /\ skipped' = skipped
           \/ data' = data /\ skipped' = skipped + 1

\* C1: every line read after the header ends in exactly one outcome, a record
\* appended or a skip counted, and control returns to the loop (the processing
\* of a line never leaves it by the except clause of the file); so between
\* lines total_lines is skipped plus the number of records.
C1_OneOutcomePerLine ==
    /\ [][OneOutcome]_vars
    /\ [](pc = "loop" => total_lines = skipped + Len(data))

C1_Witness ==
    pc = "loop" /\ total_lines >= 4 /\ Len(data) >= 2 /\ skipped >= 2

\* the owner and the file of call i
CallPair(i) == <<calls[i].user_id, calls[i].file>>

\* the eligible files: the .plt files of the Trajectory directory of each owner
EligibleFiles(e) == { f \in e.files : IsPlt(f) }

EligiblePairs ==
    UNION { { <<e.name, f>> : f \in EligibleFiles(e) } :
              e \in { o \in root : o.isdir /\ o.trajectory } }

\* p comes before q in the traversal: owners in sorted order, and the files
\* of an owner in sorted order
PairLess(p, q) == StrLess(p[1], q[1]) \/ (p[1] = q[1] /\ StrLess(p[2], q[2]))

\* the position of the pair among the eligible files of its owner, from 1
Rank(p) == Cardinality({ q \in EligiblePairs : q[1] = p[1] /\ StrLess(q[2], p[2]) }) + 1

\* the pair is among the first n eligible files of its owner when the cap is
\* set to n (every pair when it is not set)
WithinCap(p) == limit_files_per_user = <<>> \/ Rank(p) <= limit_files_per_user[1]

RECURSIVE KeptFrom(_)
\* the records parsed from the files that were read to their end, in order
KeptFrom(k) ==
    IF k = 0 THEN <<>>
    ELSE KeptFrom(k - 1) \o (IF calls[k].ok THEN calls[k].parsed ELSE <<>>)

Kept == KeptFrom(Len(calls))

\* the calls are made in the order of the traversal
CallsInOrder ==
    \A i, j \in DOMAIN calls : i < j => PairLess(CallPair(i), CallPair(j))

\* the run is never stuck before it is finalized: between two lines, two files
\* or two owners some step is possible, also after a failure (a line that has
\* been read is C1's)
Continues == pc \notin {"done", "line"} => ENABLED Next

\* C2 as stated: a file that fails to open or to be read contributes no
\* record, and the run still parses every eligible file that follows it, of
\* its owner and of every later owner, in sorted order, and is finalized.
C2_EveryLaterFileParsed ==
    /\ Continues
    /\ all_data = Kept
    /\ CallsInOrder
    /\ pc = "done" =>
         \A i \in DOMAIN calls : ~calls[i].ok =>
            \A q \in EligiblePairs : PairLess(CallPair(i), q) =>
               \E j \in DOMAIN calls : j > i /\ CallPair(j) = q

\* C2 as amended: the same for every eligible file that follows it and that
\* the per-owner file cap admits (the failed file counts towards the cap).
C2_EveryLaterAdmittedFileParsed ==
    /\ Continues
    /\ all_data = Kept
    /\ CallsInOrder
    /\ pc = "done" =>
         \A i \in DOMAIN calls : ~calls[i].ok =>
            \A q \in EligiblePairs : PairLess(CallPair(i), q) /\ WithinCap(q) =>
               \E j \in DOMAIN calls : j > i /\ CallPair(j) = q

\* a file failed after a record had been parsed from it, files of the same and
\* of a later owner were parsed after it, and the run is finalized
C2_Witness ==
    /\ pc = "done"
    /\ \E i \in DOMAIN calls :
          /\ ~calls[i].ok
          /\ calls[i].parsed # <<>>
          /\ \E j \in DOMAIN calls : j > i /\ calls[j].ok /\ calls[j].parsed # <<>>
    /\ all_data # <<>>

Count(rows, r) == Cardinality({ i \in DOMAIN rows : rows[i] = r })

IsPermutation(a, b) ==
    /\ Len(a) = Len(b)
    /\ \A i \in DOMAIN a : Count(a, a[i]) = Count(b, a[i])

\* owners ascending and, within an owner, timestamps non-decreasing
IsOrdered(rows) ==
    \A i, j \in DOMAIN rows : i < j =>
        /\ ~StrLess(rows[j].user_id, rows[i].user_id)
        /\ rows[i].user_id = rows[j].user_id =>
               ~TupleLess(rows[j].timestamp, rows[i].timestamp)

\* C3: when records were collected, the dataset written is a permutation of
\* the records parsed from the files that were read, ordered by owner and,
\* within an owner, by timestamp.
C3_OutputSortedPermutation ==
    pc = "done" /\ all_data # <<>> =>
        /\ output.written
        /\ IsPermutation(output.rows, Kept)
        /\ IsOrdered(output.rows)

\* the sort moved a record
C3_Witness ==
    /\ pc = "done"
    /\ output.written
    /\ Len(output.rows) >= 2
    /\ output.rows # all_data

\* C4: with the cap set to n >= 0, the files parsed of each owner are among
\* its first n eligible files at any time, and are exactly its first
\* min(n, number of eligible files) when the run has ended.
C4_CapRespected ==
    limit_files_per_user # <<>> =>
        /\ \A i \in DOMAIN calls : WithinCap(CallPair(i))
        /\ pc = "done" =>
              { CallPair(i) : i \in DOMAIN calls } = { p \in EligiblePairs : WithinCap(p) }

\* C5 as stated: a line of 6 or more fields whose latitude and longitude
\* parse and whose last two fields match a layout gives a record, never a
\* skip, with the owner passed in.
C5_ValidLineGivesRecord ==
    Processed /\ CoordinatesParse /\ Matching # {} =>
        OneRecord /\ data[1].user_id = user_id

\* C5 as amended: the same for the lines whose altitude parses too, from
\* field[3] or else from field[-3].
C5_ValidLineWithAltitudeGivesRecord ==
    Processed /\ CoordinatesParse /\ AltitudeParses /\ Matching # {} =>
        OneRecord /\ data[1].user_id = user_id

C5_Witness ==
    /\ OneRecord
    /\ CoordinatesParse /\ AltitudeParses /\ Matching # {}
    /\ data[1].user_id = "010"
    /\ Len(LineFields) = 6

\* C6: a non-empty line of fewer than 6 fields is skipped: it is counted, no
\* record is appended, and none of its fields is parsed (the sample holds the
\* line itself, with no conversion error attached).
C6_ShortLineSkipped ==
    Processed /\ Strip(line) # "" /\ Len(LineFields) < 6 =>
        OneSkip /\ bad_lines = <<Strip(line)>>

\* a line of 5 fields, and one whose fields are no numbers
C6_Witness ==
    /\ OneSkip
    /\ Len(LineFields) \in {2, 5}
    /\ bad_lines = <<Strip(line)>>

\* C7: the latitude, longitude and altitude of every record appended are
\* finite numbers.
C7_RecordsFinite ==
    \A i \in DOMAIN data :
        /\ IsFinite(data[i].latitude)
        /\ IsFinite(data[i].longitude)
        /\ IsFinite(data[i].altitude)

\* C8: for a line of 6 or more fields whose latitude and longitude parse, the
\* altitude of the record is the value of field[3] when it parses and of
\* field[-3] otherwise, and the line is skipped for its altitude only when
\* neither parses.
C8_AltitudeFallback ==
    Processed /\ CoordinatesParse =>
        /\ OneRecord =>
              data[1].altitude =
                 IF Float(Field(3)).ok THEN Float(Field(3)).value
                 ELSE Float(FieldFromEnd(3)).value
        /\ ~AltitudeParses => OneSkip
        /\ AltitudeParses /\ Matching # {} => OneRecord

\* the altitude was taken from field[-3]
C8_Witness ==
    /\ OneRecord
    /\ CoordinatesParse
    /\ ~Float(Field(3)).ok
    /\ data[1].altitude = Float(FieldFromEnd(3)).value

\* C9: for a line whose numbers parse, the timestamp of the record is the
\* instant of the first of the four layouts that matches the date and time
\* joined by a space, and the line is skipped, with the text tried in the
\* sample, exactly when no layout matches.
C9_FirstMatchingLayout ==
    Processed /\ CoordinatesParse /\ AltitudeParses =>
        /\ Matching # {} =>
              /\ OneRecord
              /\ data[1].timestamp = strptime(DateTimeText, Layouts[FirstMatching]).value
        /\ Matching = {} =>
              /\ OneSkip
              /\ bad_lines = << Strip(line) \o "  <-- Unknown datetime format: '"
                                \o DateTimeText \o "'" >>

\* the last layout matched: the seconds default to 0
C9_Witness ==
    /\ OneRecord
    /\ Matching = {4}
    /\ data[1].timestamp[6] = 0

\* a step within the parsing of a file leaves the sample as it is or adds one
\* entry at its end
AppendOnly ==
    pc \in {"header", "loop", "line"} /\ pc' \in {"header", "loop", "line"} =>
        \/ bad_lines' = bad_lines
        \/ /\ Len(bad_lines') = Len(bad_lines) + 1
           /\ SubSeq(bad_lines', 1, Len(bad_lines)) = bad_lines

\* C10: the sample of a file never holds more than 5 entries, is empty when
\* the file is opened, and while the file is parsed an entry is only ever
\* added at its end.
C10_SampleBounded ==
    /\ [](Len(bad_lines) <= 5)
    /\ [](pc = "header" /\ header = 0 => bad_lines = <<>>)
    /\ [][AppendOnly]_vars

\* five lines are in the sample and a sixth, skipped for its field count, is
\* not
C10_Witness ==
    /\ pc = "loop"
    /\ Len(bad_lines) = 5
    /\ skipped = 6
    /\ total_lines = 6
    /\ Strip(line) = "1,2,3,4,5"
    /\ bad_lines[5] # "1,2,3,4,5"

====
